---------------------------- MODULE Spec2Model ----------------------------
(***************************************************************************)
(* Model of src/assistente.py: the mind-map visualizer (MindMapScene,      *)
(* MindMapNode, MindMapVisualizer.visualize_mindmap), the LLM worker       *)
(* (LLMWorker.run, extract_json_from_response) and MindMapNode.wrap_text.  *)
(*                                                                         *)
(* Text is a sequence of one-character strings.  A parsed JSON value is a  *)
(* tagged record: [t |-> "obj", v |-> <<[k |-> key, v |-> value], ...>>],  *)
(* [t |-> "arr", v |-> <<values>>], [t |-> "str", v |-> chars],            *)
(* [t |-> "num", v |-> n]; Python's None is [t |-> "none"].                *)
(***************************************************************************)
EXTENDS Integers, Sequences, FiniteSets, TLC

VARIABLES
    \* LLMWorker.extract_json_from_response applied to one text
    response_text, src_map, json_data, ext_pc,
    \* MindMapNode.wrap_text applied to one label
    wrap_label, wrap_width, wrap_lines, wrap_pc,
    \* MindMapScene: the node table, the connection list, the scene's items
    nodes, connections, items,
    \* the last visualize_mindmap call: its arguments, how it ended, how many
    viz_exc, last_data, last_central, n_calls,
    \* MindMapVisualizer / LLMWorker: button, worker, queued signals
    send_enabled, worker, signals

extVars == <<response_text, src_map, json_data, ext_pc>>
wrapVars == <<wrap_label, wrap_width, wrap_lines, wrap_pc>>
sceneVars == <<nodes, connections, items, viz_exc, last_data, last_central, n_calls>>
appVars == <<send_enabled, worker, signals>>
vars == <<extVars, wrapVars, sceneVars, appVars>>

-----------------------------------------------------------------------------
(* Bounds of the model.                                                    *)

\* fragments concatenated into one response text
MaxFrags == 4
\* characters of a label handed to wrap_text
MaxLabelLen == 5
\* widths handed to wrap_text: 1..MaxWidth
MaxWidth == 3
\* categories of a generated category map
MaxCats == 9
\* leaves of a generated category
MaxLeaves == 3
\* categories of a generated map whose values are of every kind
FewCats == 2
\* the visualize calls counted by n_calls (it saturates there)
MaxCalls == 2
\* characters of a label of a serialised (round-trip) map
MaxRTLabel == 3

-----------------------------------------------------------------------------
(* Values.                                                                 *)

None == [t |-> "none"]
Str(s) == [t |-> "str", v |-> s]
Num(n) == [t |-> "num", v |-> n]
Arr(xs) == [t |-> "arr", v |-> xs]
Obj(ps) == [t |-> "obj", v |-> ps]
Pair(key, val) == [k |-> key, v |-> val]

Min(S) == CHOOSE x \in S : \A y \in S : x <= y
Max(S) == CHOOSE x \in S : \A y \in S : x >= y

RECURSIVE Concat(_)
\* ''.join(seqs)
Concat(seqs) == IF seqs = <<>> THEN <<>> ELSE Head(seqs) \o Concat(Tail(seqs))

\* the characters json and re treat as whitespace (\s), of those modelled
IsSpace(c) == c \in {" ", "\n"}

DigitSeq == <<"0", "1", "2", "3", "4", "5", "6", "7", "8", "9">>
IsDigit(c) == \E k \in 1..10 : DigitSeq[k] = c
DigitVal(c) == (CHOOSE k \in 1..10 : DigitSeq[k] = c) - 1

RECURSIVE IntToStr(_)
\* str(n) of a non-negative int
IntToStr(n) ==
    IF n < 10 THEN <<DigitSeq[n + 1]>>
    ELSE IntToStr(n \div 10) \o <<DigitSeq[(n % 10) + 1]>>

-----------------------------------------------------------------------------
(* json.loads, on the modelled alphabet: objects, arrays, strings without  *)
(* escapes, non-negative integers.  The literals true/false/null, signs,   *)
(* fractions, exponents and backslash escapes are outside the alphabet.    *)

ParseFail == [ok |-> FALSE, v |-> None, i |-> 0]
ParseOk(val, next) == [ok |-> TRUE, v |-> val, i |-> next]

RECURSIVE SkipWs(_, _)
\* the first index >= i of s that holds no whitespace (Len(s)+1 if none)
SkipWs(s, i) ==
    IF i <= Len(s) /\ IsSpace(s[i]) THEN SkipWs(s, i + 1) ELSE i

\* the string literal from the quote at index i to the quote at index j
StringTo(s, i, j) ==
    IF \E k \in (i + 1)..(j - 1) : s[k] = "\n" THEN ParseFail
    ELSE ParseOk(Str(SubSeq(s, i + 1, j - 1)), j + 1)

\* s[i] is the opening quote: the string runs to the next quote
ParseString(s, i) ==
    LET closing == {j \in (i + 1)..Len(s) : s[j] = "\""}
    IN  IF closing = {} THEN ParseFail ELSE StringTo(s, i, Min(closing))

RECURSIVE DigitsValue(_)
DigitsValue(ds) ==
    IF ds = <<>> THEN 0
    ELSE 10 * DigitsValue(SubSeq(ds, 1, Len(ds) - 1)) + DigitVal(ds[Len(ds)])

\* s[i] is a digit: 0, or [1-9][0-9]*
ParseNumber(s, i) ==
    IF s[i] = "0" THEN ParseOk(Num(0), i + 1)
    ELSE LET nondigit == {j \in i..Len(s) : ~IsDigit(s[j])}
             stop == IF nondigit = {} THEN Len(s) + 1 ELSE Min(nondigit)
         IN  ParseOk(Num(DigitsValue(SubSeq(s, i, stop - 1))), stop)

\* dict[key] = val: a repeated key keeps its first position, takes the last value
SetKey(ps, key, val) ==
    IF \E n \in 1..Len(ps) : ps[n].k = key
    THEN [n \in 1..Len(ps) |-> IF ps[n].k = key THEN Pair(key, val) ELSE ps[n]]
    ELSE Append(ps, Pair(key, val))

RECURSIVE ParseValue(_, _), ParseElements(_, _, _), ParseMembers(_, _, _)

\* after an array element val: "]" ends the array, "," leads to the next
AfterElement(s, acc, val, e) ==
    IF ~val.ok \/ e > Len(s) THEN ParseFail
    ELSE IF s[e] = "]" THEN ParseOk(Arr(Append(acc, val.v)), e + 1)
    ELSE IF s[e] = "," THEN ParseElements(s, SkipWs(s, e + 1), Append(acc, val.v))
    ELSE ParseFail

\* the elements of an array from index i on, acc those already parsed
ParseElements(s, i, acc) ==
    LET val == ParseValue(s, i)
    IN  AfterElement(s, acc, val, SkipWs(s, val.i))

\* after a member's value: "}" ends the object, "," leads to the next
AfterMember(s, acc, e) ==
    IF e > Len(s) THEN ParseFail
    ELSE IF s[e] = "}" THEN ParseOk(Obj(acc), e + 1)
    ELSE IF s[e] = "," THEN ParseMembers(s, SkipWs(s, e + 1), acc)
    ELSE ParseFail

\* the value val of the member named key
MemberValue(s, acc, key, val) ==
    IF ~val.ok THEN ParseFail
    ELSE AfterMember(s, SetKey(acc, key, val.v), SkipWs(s, val.i))

\* after a member's key: a colon at index c, then its value
AfterKey(s, acc, key, c) ==
    IF ~key.ok \/ c > Len(s) \/ s[c] # ":" THEN ParseFail
    ELSE MemberValue(s, acc, key.v.v, ParseValue(s, SkipWs(s, c + 1)))

\* the members of an object from index i on, acc those already parsed
ParseMembers(s, i, acc) ==
    IF i > Len(s) \/ s[i] # "\"" THEN ParseFail
    ELSE LET key == ParseString(s, i)
         IN  AfterKey(s, acc, key, SkipWs(s, key.i))

\* an object or array opened at index i - 1, j its first index that holds
\* no whitespace
ParseContainer(s, j, is_object) ==
    IF is_object
    THEN IF j <= Len(s) /\ s[j] = "}" THEN ParseOk(Obj(<<>>), j + 1)
         ELSE ParseMembers(s, j, <<>>)
    ELSE IF j <= Len(s) /\ s[j] = "]" THEN ParseOk(Arr(<<>>), j + 1)
         ELSE ParseElements(s, j, <<>>)

ParseValue(s, i) ==
    IF i > Len(s) THEN ParseFail
    ELSE IF s[i] = "\"" THEN ParseString(s, i)
    ELSE IF s[i] \in {"{", "["} THEN ParseContainer(s, SkipWs(s, i + 1), s[i] = "{")
    ELSE IF IsDigit(s[i]) THEN ParseNumber(s, i)
    ELSE ParseFail

\* the value, if only whitespace follows it
WholeText(s, val) ==
    IF val.ok /\ SkipWs(s, val.i) = Len(s) + 1 THEN val ELSE ParseFail

\* json.loads(s): one value, whitespace around it, nothing after it;
\* ok = FALSE stands for json.JSONDecodeError
Loads(s) == WholeText(s, ParseValue(s, SkipWs(s, 1)))

-----------------------------------------------------------------------------
(* json.dump(json_data, f, ensure_ascii=False, indent=2)                   *)

RECURSIVE Spaces(_)
Spaces(n) == IF n = 0 THEN <<>> ELSE <<" ">> \o Spaces(n - 1)

NewlineIndent(level) == <<"\n">> \o Spaces(2 * level)

RECURSIVE Dump(_, _), DumpItems(_, _, _)

\* the text of value val at nesting depth level
Dump(val, level) ==
    IF val.t = "str" THEN <<"\"">> \o val.v \o <<"\"">>
    ELSE IF val.t = "num" THEN IntToStr(val.v)
    ELSE IF val.t = "arr" THEN
        IF val.v = <<>> THEN <<"[", "]">>
        ELSE <<"[">> \o DumpItems(val, 1, level + 1)
                 \o NewlineIndent(level) \o <<"]">>
    ELSE
        IF val.v = <<>> THEN <<"{", "}">>
        ELSE <<"{">> \o DumpItems(val, 1, level + 1)
                 \o NewlineIndent(level) \o <<"}">>

\* items n.. of the array or object val, one per line at depth level
DumpItems(val, n, level) ==
    IF n > Len(val.v) THEN <<>>
    ELSE NewlineIndent(level)
         \o (IF val.t = "obj"
             THEN <<"\"">> \o val.v[n].k \o <<"\"", ":", " ">>
                  \o Dump(val.v[n].v, level)
             ELSE Dump(val.v[n], level))
         \o (IF n < Len(val.v) THEN <<",">> ELSE <<>>)
         \o DumpItems(val, n + 1, level)

Dumps(val) == Dump(val, 0)

-----------------------------------------------------------------------------
(* LLMWorker.extract_json_from_response                                    *)

\* the backtick character (the string lexer of this language rejects a literal one)
Backtick == "backtick"

Fence == <<Backtick, Backtick, Backtick>>
FenceJson == Fence \o <<"j", "s", "o", "n">>

OccursAt(s, p, i) == i >= 1 /\ i + Len(p) - 1 <= Len(s) /\ SubSeq(s, i, i + Len(p) - 1) = p

\* the first index >= i where p occurs in s, 0 if none
FindFrom(s, p, i) ==
    LET hits == {k \in i..Len(s) : OccursAt(s, p, k)}
    IN  IF hits = {} THEN 0 ELSE Min(hits)

RECURSIVE WsRunStart(_, _, _)
\* the start of the whitespace run that ends right before index c, not below lo
WsRunStart(s, c, lo) ==
    IF c > lo /\ IsSpace(s[c - 1]) THEN WsRunStart(s, c - 1, lo) ELSE c

\* the fenced block opened at index open (0: none), its content starting
\* at index start, the closing fence at index close (0: none)
FenceGroup(s, open, start, close) ==
    IF open = 0 \/ close = 0 THEN [matched |-> FALSE, group |-> <<>>]
    ELSE [matched |-> TRUE,
          group |-> SubSeq(s, start, WsRunStart(s, close, start) - 1)]

\* the content of the block opened at index open, from index start on
FenceFrom(s, open, start) == FenceGroup(s, open, start, FindFrom(s, Fence, start))

\* re.search of the fenced-block pattern (three backticks, json, \s*, a lazy
\* group, \s*, three backticks) with re.DOTALL: group(1)
FenceSearch(s) ==
    LET open == FindFrom(s, FenceJson, 1)
    IN  FenceFrom(s, open, SkipWs(s, open + Len(FenceJson)))

\* re.search of the brace pattern with re.DOTALL: group(0), which runs from
\* the first opening brace to the last closing brace
BraceSearch(s) ==
    LET opens == {k \in 1..Len(s) : s[k] = "{"}
        closes == {k \in 1..Len(s) : s[k] = "}"}
    IN  IF opens = {} \/ closes = {} \/ Max(closes) < Min(opens)
        THEN [matched |-> FALSE, group |-> <<>>]
        ELSE [matched |-> TRUE, group |-> SubSeq(s, Min(opens), Max(closes))]

\* the string handed to json.loads: the fenced group, else the brace span,
\* else the whole text
Candidate(text, fence, brace) ==
    IF fence.matched THEN fence.group
    ELSE IF brace.matched THEN brace.group
    ELSE text

\* return json.loads(json_str), or None on json.JSONDecodeError
ParsedOrNone(parsed) == IF parsed.ok THEN parsed.v ELSE None

\* a failed parse yields an empty map instead of None
ParsedOrEmptyMap(parsed) == IF parsed.ok THEN parsed.v ELSE Obj(<<>>)

\* the extractor with the empty map as its failure value
ExtractDefaultsToEmptyMap(text) ==
    ParsedOrEmptyMap(Loads(Candidate(text, FenceSearch(text), BraceSearch(text))))

\* the candidate string is chosen by which pattern matches; it is parsed once
ExtractJsonFromResponse(text) ==
    ParsedOrNone(Loads(Candidate(text, FenceSearch(text), BraceSearch(text))))

-----------------------------------------------------------------------------
(* States the other parts rest in while one part is exercised.             *)

\* no text is being extracted
ExtIdle ==
    /\ response_text = <<>>
    /\ src_map = None
    /\ json_data = None
    /\ ext_pc = "idle"

\* no label is being wrapped
WrapIdle ==
    /\ wrap_label = <<>>
    /\ wrap_width = 1
    /\ wrap_lines = <<>>
    /\ wrap_pc = "idle"

-----------------------------------------------------------------------------
(* Inputs of extract_json_from_response.                                   *)

\* pieces of a model response: fence markers, braces, a member, an array,
\* prose, whitespace
Fragments ==
    { FenceJson, Fence, <<"{">>, <<"}">>, <<"\"", "a", "\"", ":", "1">>,
      <<"[", "1", "]">>, <<"x">>, <<" ">> }

RECURSIVE TextsOf(_)
\* the texts made of at most k fragments
TextsOf(k) ==
    IF k = 0 THEN {<<>>}
    ELSE LET shorter == TextsOf(k - 1)
         IN  shorter \cup {t \o f : t \in shorter, f \in Fragments}

Texts == TextsOf(MaxFrags)

RECURSIVE SeqsUpTo(_, _)
\* the sequences over S of length at most k
SeqsUpTo(S, k) ==
    IF k = 0 THEN {<<>>}
    ELSE LET shorter == SeqsUpTo(S, k - 1)
         IN  shorter \cup {Append(q, x) : q \in shorter, x \in S}

\* labels of a serialised map: letters and backticks
RTLabels == SeqsUpTo({"a", Backtick}, MaxRTLabel) \ {<<>>}

\* values of the category-map shape: a list of strings or a scalar
RTValues ==
    {Str(l) : l \in RTLabels} \cup {Num(7)}
    \cup {Arr(<<>>)} \cup {Arr(<<Str(l)>>) : l \in RTLabels}
    \cup {Arr(<<Str(<<"a">>), Str(l)>>) : l \in RTLabels}

\* category maps: none, one or two categories
RTMaps ==
    {Obj(<<>>)}
    \cup {Obj(<<Pair(k, val)>>) : k \in RTLabels, val \in RTValues}
    \cup {Obj(<<Pair(<<"a">>, Arr(<<Str(<<"a">>)>>)), Pair(k, Str(k))>>) :
            k \in RTLabels \ {<<"a">>}}

\* the map as JSON inside a fenced block labelled json
Serialize(m) == FenceJson \o <<"\n">> \o Dumps(m) \o <<"\n">> \o Fence

InitExtract ==
    /\ \/ response_text \in Texts /\ src_map = None
       \/ \E m \in RTMaps : response_text = Serialize(m) /\ src_map = m
    /\ json_data = None
    /\ ext_pc = "start"

\* json_data = self.extract_json_from_response(response_text)
Extract ==
    /\ ext_pc = "start"
    /\ json_data' = ExtractJsonFromResponse(response_text)
    /\ ext_pc' = "done"
    /\ UNCHANGED <<response_text, src_map>>

-----------------------------------------------------------------------------
(* MindMapNode.wrap_text: textwrap.fill(text, width=max_chars_per_line),   *)
(* with TextWrapper's defaults (break_long_words, drop_whitespace), on     *)
(* text without tabs or hyphens.                                           *)

\* TextWrapper._munge_whitespace: every whitespace character becomes a space
MungeWhitespace(text) ==
    [k \in 1..Len(text) |-> IF IsSpace(text[k]) THEN " " ELSE text[k]]

RECURSIVE SplitChunks(_)
\* TextWrapper._split: maximal runs of whitespace and of non-whitespace
SplitChunks(s) ==
    IF s = <<>> THEN <<>>
    ELSE LET other == {k \in 1..Len(s) : IsSpace(s[k]) # IsSpace(s[1])}
             n == IF other = {} THEN Len(s) ELSE Min(other) - 1
         IN  <<SubSeq(s, 1, n)>> \o SplitChunks(SubSeq(s, n + 1, Len(s)))

\* chunk.strip() == ''
IsBlank(chunk) == \A k \in 1..Len(chunk) : IsSpace(chunk[k])

\* how many leading chunks fit on a line of the width
FitCount(chunks, width) ==
    Max({k \in 0..Len(chunks) : Len(Concat(SubSeq(chunks, 1, k))) <= width})

\* a whitespace chunk that would start a line is dropped, except on the
\* first line
DropLeadingBlank(chunks, lines) ==
    IF IsBlank(chunks[1]) /\ lines # <<>> THEN Tail(chunks) ELSE chunks

\* a whitespace chunk that would end the line is dropped
DropTrailingBlank(cur_line) ==
    IF cur_line # <<>> /\ IsBlank(cur_line[Len(cur_line)])
    THEN SubSeq(cur_line, 1, Len(cur_line) - 1)
    ELSE cur_line

\* lines.append(''.join(cur_line)), if the line holds anything
AppendLine(lines, cur_line) ==
    IF cur_line # <<>> THEN Append(lines, Concat(cur_line)) ELSE lines

\* the first space_left characters of the chunk go on the line, the rest
\* stays the next chunk
BreakChunk(cur_line, rest, space_left) ==
    [cur_line |-> Append(cur_line, SubSeq(rest[1], 1, space_left)),
     chunks |-> <<SubSeq(rest[1], space_left + 1, Len(rest[1]))>> \o Tail(rest)]

\* TextWrapper._handle_long_word with break_long_words: the chunk rest[1]
\* is too long for any line
HandleLongWord(cur_line, rest, width) ==
    BreakChunk(cur_line, rest, IF width < 1 THEN 1 ELSE width - Len(Concat(cur_line)))

\* the line and the chunks left, cur_line being the chunks that fit
FillLine(cur_line, rest, width) ==
    IF rest # <<>> /\ Len(rest[1]) > width
    THEN HandleLongWord(cur_line, rest, width)
    ELSE [cur_line |-> cur_line, chunks |-> rest]

RECURSIVE WrapChunks(_, _, _)

\* the line is finished and the next one begun
NextLine(filled, lines, width) ==
    WrapChunks(filled.chunks, AppendLine(lines, DropTrailingBlank(filled.cur_line)),
               width)

\* one line of chunks, n of them fitting
WrapLine(chunks, n, lines, width) ==
    NextLine(FillLine(SubSeq(chunks, 1, n), SubSeq(chunks, n + 1, Len(chunks)), width),
             lines, width)

\* the chunks of one line, a leading blank dropped
StartLine(chunks, lines, width) ==
    WrapLine(chunks, FitCount(chunks, width), lines, width)

\* TextWrapper._wrap_chunks: one pass of its outer loop per line
WrapChunks(chunks, lines, width) ==
    IF chunks = <<>> THEN lines
    ELSE StartLine(DropLeadingBlank(chunks, lines), lines, width)

RECURSIVE JoinLines(_)
\* "\n".join(lines)
JoinLines(lines) ==
    IF lines = <<>> THEN <<>>
    ELSE IF Len(lines) = 1 THEN lines[1]
    ELSE lines[1] \o <<"\n">> \o JoinLines(Tail(lines))

\* text cut at the line break at index b
SplitAt(text, b) == <<SubSeq(text, 1, b - 1), SubSeq(text, b + 1, Len(text))>>

RECURSIVE SplitLines(_)

\* the first line, and the lines of what follows it
SplitRest(cut) == <<cut[1]>> \o SplitLines(cut[2])

\* text.split('\n')
SplitLines(text) ==
    LET breaks == {k \in 1..Len(text) : text[k] = "\n"}
    IN  IF breaks = {} THEN <<text>> ELSE SplitRest(SplitAt(text, Min(breaks)))

WrapText(text, max_chars_per_line) ==
    JoinLines(WrapChunks(SplitChunks(MungeWhitespace(text)), <<>>, max_chars_per_line))

\* labels handed to wrap_text: letters and spaces
WrapLabels == SeqsUpTo({"a", "b", " "}, MaxLabelLen)

InitWrap ==
    /\ wrap_label \in WrapLabels
    /\ wrap_width \in 1..MaxWidth
    /\ wrap_lines = <<>>
    /\ wrap_pc = "start"

\* self.wrapped_text = self.wrap_text(self.text, width); its lines are
\* self.wrapped_text.split('\n')
Wrap ==
    /\ wrap_pc = "start"
    /\ wrap_lines' = SplitLines(WrapText(wrap_label, wrap_width))
    /\ wrap_pc' = "done"
    /\ UNCHANGED <<wrap_label, wrap_width>>

-----------------------------------------------------------------------------
(* Angles and positions.  An angle is an exact rational multiple of pi,    *)
(* [n, d] in lowest terms; a position is the sum of polar vectors          *)
(* r * (cos a, sin a), kept as the sequence of its terms.                  *)

RECURSIVE Gcd(_, _)
Gcd(a, b) == IF b = 0 THEN a ELSE Gcd(b, a % b)

Abs(x) == IF x < 0 THEN -x ELSE x

\* n/d in lowest terms, d > 0
Rat(n, d) ==
    LET g == Gcd(Abs(n), Abs(d))
        sgn == IF d < 0 THEN -1 ELSE 1
    IN  [n |-> sgn * (n \div g), d |-> sgn * (d \div g)]

RAdd(p, q) == Rat(p.n * q.d + q.n * p.d, p.d * q.d)
RSub(p, q) == Rat(p.n * q.d - q.n * p.d, p.d * q.d)
RMul(p, q) == Rat(p.n * q.n, p.d * q.d)
\* q is not zero
RDiv(p, q) == Rat(p.n * q.d, p.d * q.n)

Polar(r, a) == [r |-> r, a |-> a]

\* QPointF(0, 0)
Origin == <<>>

-----------------------------------------------------------------------------
(* MindMapNode                                                             *)

\* len(self.colors)
PaletteSize == 8

\* the width handed to wrap_text per node type
CentralWrapWidth == 15
CategoryWrapWidth == 12
LeafWrapWidth == 10

\* MindMapNode(text, node_type, color_index) with setup_node_properties: the
\* new item, or the exception it raises.  text is a value: wrap_text of a
\* text that is no str raises AttributeError; self.colors[color_index]
\* beyond the palette raises IndexError.
MindMapNode(text, node_type, color_index) ==
    LET max_chars == IF node_type = "central" THEN CentralWrapWidth
                     ELSE IF node_type = "category" THEN CategoryWrapWidth
                     ELSE LeafWrapWidth
    IN  IF text.t # "str" THEN [exc |-> "AttributeError"]
        ELSE IF node_type # "central" /\ color_index >= PaletteSize
        THEN [exc |-> "IndexError"]
        ELSE [exc |-> "none",
              item |-> [kind |-> "node", text |-> text.v, node_type |-> node_type,
                        color_index |-> color_index,
                        wrapped_text |-> WrapText(text.v, max_chars),
                        pos |-> Origin]]

-----------------------------------------------------------------------------
(* MindMapScene.  A scene is [nodes, connections, items, exc]: items are   *)
(* the QGraphicsScene's items in the order they were added, an item's      *)
(* index is its identity; nodes maps a node id to the index of its node;   *)
(* connections lists the indices of the ConnectionLine items; exc is the   *)
(* exception that ended the call being run ("none": still running).        *)

NoNodes == [id \in {} |-> 0]

\* the text item show_initial_message adds
InitialMessage == [kind |-> "text"]

\* a handler step applies only while no exception was raised
Raise(sc, exc) == [sc EXCEPT !.exc = exc]

\* clear_mindmap without the reset of self.nodes
ClearKeepsNodeTable(sc) ==
    [nodes |-> sc.nodes, connections |-> <<>>, items |-> <<>>, exc |-> sc.exc]

ClearMindmap(sc) ==
    [nodes |-> NoNodes, connections |-> <<>>, items |-> <<>>, exc |-> sc.exc]

\* node.setPos(position); self.addItem(node); self.nodes[node_id] = node
PlaceNode(sc, made, node_id, position) ==
    IF made.exc # "none" THEN Raise(sc, made.exc)
    ELSE [sc EXCEPT
            !.items = Append(sc.items, [made.item EXCEPT !.pos = position]),
            !.nodes = (node_id :> (Len(sc.items) + 1)) @@ sc.nodes]

AddMindmapNode(sc, node_id, text, node_type, color_index, position) ==
    IF sc.exc # "none" THEN sc
    ELSE PlaceNode(sc, MindMapNode(text, node_type, color_index), node_id, position)

AddConnection(sc, start_id, end_id) ==
    IF sc.exc # "none" THEN sc
    ELSE IF start_id \in DOMAIN sc.nodes /\ end_id \in DOMAIN sc.nodes
    THEN [sc EXCEPT
            !.items = Append(sc.items, [kind |-> "line",
                                        start_node |-> sc.nodes[start_id],
                                        end_node |-> sc.nodes[end_id]]),
            !.connections = Append(sc.connections, Len(sc.items) + 1)]
    ELSE sc

-----------------------------------------------------------------------------
(* MindMapVisualizer.visualize_mindmap                                     *)

\* category_radius
CategoryRadius == 300
\* leaf_radius, of a list's leaves
LeafRadius == 200
\* the radius written out in the branch for a value that is no list
ScalarLeafRadius == 200
\* angular_span = math.pi / 2.5, in units of pi: 2/5
AngularSpanNum == 2
AngularSpanDen == 5
AngularSpan == Rat(AngularSpanNum, AngularSpanDen)

RECURSIVE PyStr(_), PyRepr(_), PyJoin(_, _, _)

\* str(val), which is also what an f-string puts for {val}
PyStr(val) ==
    IF val.t = "str" THEN val.v
    ELSE IF val.t = "num" THEN IntToStr(val.v)
    ELSE IF val.t = "arr" THEN <<"[">> \o PyJoin(val, 1, FALSE) \o <<"]">>
    ELSE IF val.t = "obj" THEN <<"{">> \o PyJoin(val, 1, TRUE) \o <<"}">>
    ELSE <<"N", "o", "n", "e">>

\* repr(val): a str (without quotes in it) in single quotes
PyRepr(val) ==
    IF val.t = "str" THEN <<"'">> \o val.v \o <<"'">> ELSE PyStr(val)

\* the reprs of items n.. of a list or dict, joined by ", "
PyJoin(val, n, is_dict) ==
    IF n > Len(val.v) THEN <<>>
    ELSE (IF is_dict
          THEN PyRepr(Str(val.v[n].k)) \o <<":", " ">> \o PyRepr(val.v[n].v)
          ELSE PyRepr(val.v[n]))
         \o (IF n < Len(val.v) THEN <<",", " ">> ELSE <<>>)
         \o PyJoin(val, n + 1, is_dict)

\* the spread with the span divided among num_leaves, not num_leaves - 1
SpreadOverLeafCount(angle, j, num_leaves) ==
    [ok |-> TRUE,
     a |-> RAdd(angle,
                RDiv(RMul(AngularSpan, RSub(Rat(j, 1), Rat(num_leaves - 1, 2))),
                     Rat(num_leaves, 1)))]

\* angle + angular_span * (j - (num_leaves - 1) / 2) / (num_leaves - 1);
\* ok = FALSE stands for ZeroDivisionError
SpreadAngle(angle, j, num_leaves) ==
    IF num_leaves - 1 = 0 THEN [ok |-> FALSE, a |-> angle]
    ELSE [ok |-> TRUE,
          a |-> RAdd(angle,
                     RDiv(RMul(AngularSpan,
                               RSub(Rat(j, 1), Rat(num_leaves - 1, 2))),
                          Rat(num_leaves - 1, 1)))]

\* the formula applied to every leaf count, the single leaf not set apart
LeafAngleNoSingleCase(angle, j, num_leaves) == SpreadAngle(angle, j, num_leaves)

\* leaf j of num_leaves: the category's own angle for a single leaf
LeafAngle(angle, j, num_leaves) ==
    IF num_leaves = 1 THEN [ok |-> TRUE, a |-> angle]
    ELSE SpreadAngle(angle, j, num_leaves)

\* a leaf node and its connection to the category
AddLeafNode(sc, category, leaf_id, text, i, leaf_pos) ==
    AddConnection(AddMindmapNode(sc, leaf_id, text, "leaf", i, leaf_pos),
                  category, leaf_id)

\* one pass of the loop over a list's items: the leaf at leaf_angle
AddLeaf(sc, category, item, i, leaf_angle, category_pos) ==
    IF ~leaf_angle.ok THEN Raise(sc, "ZeroDivisionError")
    ELSE AddLeafNode(sc, category, category \o <<"_">> \o PyStr(item), item, i,
                     category_pos \o <<Polar(LeafRadius, leaf_angle.a)>>)

RECURSIVE AddLeaves(_, _, _, _, _, _, _)
\* for j, item in enumerate(items): leaves j.. of the list its
AddLeaves(sc, category, its, i, angle, category_pos, j) ==
    IF j >= Len(its) \/ sc.exc # "none" THEN sc
    ELSE AddLeaves(AddLeaf(sc, category, its[j + 1], i,
                           LeafAngle(angle, j, Len(its)), category_pos),
                   category, its, i, angle, category_pos, j + 1)

\* the branch for a value that is no list: one leaf of its str()
AddScalarLeaf(sc, category, value, i, angle, category_pos) ==
    AddLeafNode(sc, category, category \o <<"_">> \o PyStr(value), Str(PyStr(value)),
                i, category_pos \o <<Polar(ScalarLeafRadius, angle)>>)

\* the leaves of a category whose node is in place
AddItems(sc, category, value, i, angle, category_pos) ==
    IF value.t = "arr"
    THEN AddLeaves(sc, category, value.v, i, angle, category_pos, 0)
    ELSE AddScalarLeaf(sc, category, value, i, angle, category_pos)

\* one pass of the loop over the categories: category i, placed at angle
AddCategory(sc, category, value, i, angle, category_pos, central_node) ==
    AddItems(AddConnection(AddMindmapNode(sc, category, Str(category), "category",
                                          i, category_pos),
                           central_node, category),
             category, value, i, angle, category_pos)

\* category i of num_categories, at angle 2 * math.pi * i / num_categories
PlaceCategory(sc, member, i, angle, central_node) ==
    AddCategory(sc, member.k, member.v, i, angle, <<Polar(CategoryRadius, angle)>>,
                central_node)

RECURSIVE AddCategories(_, _, _, _)
\* for i, category in enumerate(categories): categories i.. of the dict cats
AddCategories(sc, cats, central_node, i) ==
    IF i >= Len(cats) \/ sc.exc # "none" THEN sc
    ELSE AddCategories(PlaceCategory(sc, cats[i + 1], i, Rat(2 * i, Len(cats)),
                                     central_node),
                       cats, central_node, i + 1)

\* categories = list(data.keys()) and the loop over them; data.keys() of a
\* value that is no dict raises AttributeError
AddData(sc, data, central_node) ==
    IF sc.exc # "none" THEN sc
    ELSE IF data.t # "obj" THEN Raise(sc, "AttributeError")
    ELSE AddCategories(sc, data.v, central_node, 0)

\* visualize_mindmap(data, central_node) on scene sc: the scene it leaves,
\* with the exception that ended it if one did.  The view's fitInView is not
\* modelled.
VisualizeMindmap(sc, data, central_node) ==
    AddData(AddMindmapNode(ClearMindmap(sc), central_node, Str(central_node),
                           "central", 0, Origin),
            data, central_node)

\* the scene held in the state, no call running
Scene == [nodes |-> nodes, connections |-> connections, items |-> items,
          exc |-> "none"]

\* the scene a call left becomes the state
SceneBecomes(built, data, central_node) ==
    /\ nodes' = built.nodes
    /\ connections' = built.connections
    /\ items' = built.items
    /\ viz_exc' = built.exc
    /\ last_data' = data
    /\ last_central' = central_node
    /\ n_calls' = IF n_calls < MaxCalls THEN n_calls + 1 ELSE n_calls

\* a visualize_mindmap call as a step of the state
VisualizeStep(data, central_node) ==
    SceneBecomes(VisualizeMindmap(Scene, data, central_node), data, central_node)

\* MindMapScene() and show_initial_message(): an empty table, the message
SceneInit ==
    /\ nodes = NoNodes
    /\ connections = <<>>
    /\ items = <<InitialMessage>>
    /\ viz_exc = "none"
    /\ last_data = None
    /\ last_central = <<>>
    /\ n_calls = 0

-----------------------------------------------------------------------------
(* Inputs of visualize_mindmap.                                            *)

\* central labels: a word of its own, and one that is also a category label
Centrals == {<<"T">>, <<"a">>}

LeafName(j) == <<"x">> \o IntToStr(j)
CatName(i) == <<"k">> \o IntToStr(i)

\* a list of m distinct leaves
LeafList(m) == Arr([j \in 1..m |-> Str(LeafName(j))])

\* n categories, each with the value val
UniformMap(n, val) == Obj([i \in 1..n |-> Pair(CatName(i), val)])

\* values of the category-map shape
ShapedValues ==
    {LeafList(m) : m \in 0..MaxLeaves}
    \cup {Arr(<<Str(LeafName(1)), Str(LeafName(1))>>), Str(LeafName(1)), Num(1)}

\* values outside it: a nested object, a list holding a number
UnshapedValues == {Obj(<<Pair(LeafName(1), Num(1))>>), Arr(<<Num(1)>>)}

\* a_x1 is the label of a category, and the id of leaf x1 of category a
CollidingKey == <<"a", "_", "x", "1">>

VizMaps ==
    \* up to MaxCats categories of one leaf each
    {UniformMap(n, LeafList(1)) : n \in 0..MaxCats}
    \* a few categories, every kind of value
    \cup {UniformMap(n, val) : n \in 1..FewCats, val \in ShapedValues \cup UnshapedValues}
    \* labels that meet in the node table
    \cup {Obj(<<Pair(<<"a">>, val)>>) : val \in {LeafList(1), Str(LeafName(1))}}
    \cup {Obj(<<Pair(<<"a">>, v1), Pair(CollidingKey, v2)>>) :
            v1 \in {LeafList(1), Str(LeafName(1))},
            v2 \in {LeafList(1), Str(LeafName(1))}}

\* parsed JSON that is no object
NonMaps == {Arr(<<Str(LeafName(1))>>), Str(LeafName(1)), Num(1)}

VizData == VizMaps \cup NonMaps

\* what a worker delivers with finished: an object, and not the empty one
WorkerData == {d \in VizMaps : d.v # <<>>}

\* the contents of the files a user may pick: JSON documents, and one that
\* is no JSON
FileTexts == {Dumps(d) : d \in VizData} \cup {<<"x">>}

-----------------------------------------------------------------------------
(* MindMapVisualizer and LLMWorker.                                        *)

NoWorker == [pc |-> "none"]

AppInit ==
    /\ send_enabled = TRUE
    /\ worker = NoWorker
    /\ signals = <<>>

\* on_send_click: an empty main word or prompt only shows a warning; else
\* the button is disabled and a worker started
OnSendClick(main_word, prompt_content) ==
    /\ send_enabled
    /\ IF main_word = <<>> \/ prompt_content = <<>>
       THEN UNCHANGED <<send_enabled, worker>>
       ELSE /\ send_enabled' = FALSE
            /\ worker' = [pc |-> "running", main_word |-> main_word]
    /\ UNCHANGED signals

\* the steps of LLMWorker.run that may raise
FailPoints == {"none", "prompt_save", "llm_call", "json_save"}

\* what emitting finished(dict, str) with json_data does: a dict is
\* delivered; for another value the binding either delivers it or raises
EmitOutcomes(data) ==
    IF data.t = "obj" THEN {"delivered"} ELSE {"delivered", "TypeError"}

\* if json_data:
Truthy(val) ==
    IF val.t = "none" THEN FALSE
    ELSE IF val.t = "num" THEN val.v # 0
    ELSE val.v # <<>>

\* LLMWorker.run: the signal it emits, data being what the extractor
\* returned, fail the step that raises, outcome what emitting finished does
RunEmits(main_word, data, fail, outcome) ==
    IF fail \in {"prompt_save", "llm_call"}
    THEN [type |-> "error", message |-> fail]
    ELSE IF ~Truthy(data)
    THEN [type |-> "error", message |-> "no valid JSON"]
    ELSE IF fail = "json_save"
    THEN [type |-> "error", message |-> fail]
    ELSE IF outcome = "TypeError"
    THEN [type |-> "error", message |-> outcome]
    ELSE [type |-> "finished", json_data |-> data, main_word |-> main_word]

\* a step of the run raises: the prompt save or the model call, or, once
\* valid JSON was extracted, the JSON save or the emitting of finished
Raised(data, fail, outcome) ==
    \/ fail \in {"prompt_save", "llm_call"}
    \/ Truthy(data) /\ (fail = "json_save" \/ outcome = "TypeError")

\* the signals of a run whose exceptions no handler turns into error
RunSignalsUncaught(main_word, data, fail, outcome) ==
    IF Raised(data, fail, outcome) THEN <<>>
    ELSE <<RunEmits(main_word, data, fail, outcome)>>

\* the signals a run emits, in order, from its start to its end
RunSignals(main_word, data, fail, outcome) ==
    <<RunEmits(main_word, data, fail, outcome)>>

\* the run ends: its signals are queued for the main thread
WorkerEnds(text, data, fail) ==
    \E outcome \in EmitOutcomes(data) :
        /\ worker' = [pc |-> "done", main_word |-> worker.main_word,
                      response_text |-> text, fail |-> fail, json_data |-> data,
                      emitted |-> RunEmits(worker.main_word, data, fail, outcome)]
        /\ signals' = signals \o RunSignals(worker.main_word, data, fail, outcome)

\* the worker thread runs to its end on the model's response text
WorkerRun(text, fail) ==
    /\ worker.pc = "running"
    /\ WorkerEnds(text, ExtractJsonFromResponse(text), fail)
    /\ UNCHANGED send_enabled

\* on_generation_finished(json_data, main_word)
OnGenerationFinished(data, main_word) ==
    /\ send_enabled' = TRUE
    /\ VisualizeStep(data, main_word)

\* on_generation_error(error_message)
OnGenerationError ==
    /\ send_enabled' = TRUE
    /\ UNCHANGED sceneVars

\* data = json.load(f), then visualize_mindmap(data, filename); a file that
\* is no JSON only shows the error
LoadedFile(loaded, filename) ==
    IF loaded.ok THEN VisualizeStep(loaded.v, filename)
    ELSE UNCHANGED sceneVars

\* load_json_file with the chosen file's content and its name without
\* extension
LoadJsonFile(text, filename) == LoadedFile(Loads(text), filename)

-----------------------------------------------------------------------------
(* The application.                                                        *)

\* main words typed: none, or a word
MainWords == {<<>>, <<"T">>}
\* prompts typed: none, or some text
Prompts == {<<>>, <<"p">>}
\* responses of the model: an empty object, prose, a list, a zero, a fenced
\* map, a map inside prose
Responses ==
    { <<"{", "}">>, <<"x">>, <<"[", "1", "]">>, <<"0">>,
      Serialize(UniformMap(1, LeafList(1))),
      <<"x", " ">> \o Dumps(UniformMap(2, Str(LeafName(1)))) }
\* files picked in the application
AppFileTexts == {Dumps(Obj(<<>>)), Dumps(UniformMap(1, LeafList(2))), <<"x">>}

Init == ExtIdle /\ WrapIdle /\ SceneInit /\ AppInit

SendClick ==
    /\ \E main_word \in MainWords, prompt_content \in Prompts :
          OnSendClick(main_word, prompt_content)
    /\ UNCHANGED <<extVars, wrapVars, sceneVars>>

Run ==
    /\ \E text \in Responses, fail \in FailPoints : WorkerRun(text, fail)
    /\ UNCHANGED <<extVars, wrapVars, sceneVars>>

HandleFinished ==
    /\ signals # <<>>
    /\ Head(signals).type = "finished"
    /\ OnGenerationFinished(Head(signals).json_data, Head(signals).main_word)
    /\ signals' = Tail(signals)
    /\ UNCHANGED <<extVars, wrapVars, worker>>

HandleError ==
    /\ signals # <<>>
    /\ Head(signals).type = "error"
    /\ OnGenerationError
    /\ signals' = Tail(signals)
    /\ UNCHANGED <<extVars, wrapVars, worker>>

LoadFile ==
    /\ \E text \in AppFileTexts, filename \in Centrals : LoadJsonFile(text, filename)
    /\ UNCHANGED <<extVars, wrapVars, appVars>>

Next == SendClick \/ Run \/ HandleFinished \/ HandleError \/ LoadFile

Spec == Init /\ [][Next]_vars

\* the main thread's event loop hands the signal at the head of the queue
\* to its slot: the step HandleFinished or HandleError takes
SignalHandled ==
    /\ signals # <<>>
    /\ signals' = Tail(signals)
    /\ send_enabled' = TRUE

\* a started thread runs to the end of run (the model call returns or
\* raises), and the event loop of the main thread delivers a queued signal
Fairness ==
    /\ WF_vars(Run)
    /\ WF_<<signals, send_enabled>>(SignalHandled)

SpecLive == Spec /\ Fairness

-----------------------------------------------------------------------------
(* visualize_mindmap under every input, called from either handler.        *)

FinishedDelivered ==
    /\ \E data \in WorkerData, main_word \in Centrals :
          OnGenerationFinished(data, main_word)
    /\ UNCHANGED <<extVars, wrapVars, worker, signals>>

FileLoaded ==
    /\ \E text \in FileTexts, filename \in Centrals : LoadJsonFile(text, filename)
    /\ UNCHANGED <<extVars, wrapVars, appVars>>

NextViz == FinishedDelivered \/ FileLoaded

SpecViz == Init /\ [][NextViz]_vars

-----------------------------------------------------------------------------
(* extract_json_from_response and wrap_text under every input.             *)

InitE == InitExtract /\ WrapIdle /\ SceneInit /\ AppInit

NextExtract == Extract /\ UNCHANGED <<wrapVars, sceneVars, appVars>>

SpecExtract == InitE /\ [][NextExtract]_vars

InitW == ExtIdle /\ InitWrap /\ SceneInit /\ AppInit

NextWrap == Wrap /\ UNCHANGED <<extVars, sceneVars, appVars>>

SpecWrap == InitW /\ [][NextWrap]_vars

-----------------------------------------------------------------------------
(* Properties of extract_json_from_response (SpecExtract).                 *)

\* a pattern's group parsed, a failure if the pattern is absent
GroupParsed(found) == IF found.matched THEN Loads(found.group) ELSE ParseFail

\* the first of three attempts that parsed, None if none did
FirstParsed(a, b, c) ==
    IF a.ok THEN a.v ELSE IF b.ok THEN b.v ELSE IF c.ok THEN c.v ELSE None

\* the chain in which an unparsable candidate falls through to the next
FallbackChain(text) ==
    FirstParsed(GroupParsed(FenceSearch(text)), GroupParsed(BraceSearch(text)),
                Loads(text))

\* C1: the three strategies form a fallback chain: a fenced block whose
\* content does not parse falls through to the brace span, and that to the
\* whole text; the extractor fails only when all three attempts fail.
C1_FallbackChain ==
    ext_pc = "done" => json_data = FallbackChain(response_text)

NoBraces(text) == \A k \in 1..Len(text) : text[k] \notin {"{", "}"}

BracelessValues(text) ==
    {p.v : p \in {q \in {GroupParsed(FenceSearch(text)), Loads(text)} : q.ok}}

C6_RoundTrip ==
    (ext_pc = "done" /\ src_map # None) => json_data = src_map

-----------------------------------------------------------------------------
(* Property of wrap_text (SpecWrap).                                       *)

\* keep the chunks of seq that hold a word
RECURSIVE NonBlank(_)
NonBlank(seq) ==
    IF seq = <<>> THEN <<>>
    ELSE (IF IsBlank(Head(seq)) THEN <<>> ELSE <<Head(seq)>>) \o NonBlank(Tail(seq))

\* the words of a text, in order
Words(text) == NonBlank(SplitChunks(text))

\* the words of all lines, in order
LineWords(lines) == Concat([k \in 1..Len(lines) |-> Words(lines[k])])

\* C8: wrap_text never splits a word: the lines hold the label's words
\* whole and in order, and a line is longer than the width only if it is a
\* single word (which then stands on its own line, unshortened).
C8_WholeWords ==
    wrap_pc = "done" =>
        /\ LineWords(wrap_lines) = Words(wrap_label)
        /\ \A k \in 1..Len(wrap_lines) :
              \/ Len(wrap_lines[k]) <= wrap_width
              \/ Words(wrap_lines[k]) = <<wrap_lines[k]>>

-----------------------------------------------------------------------------
(* Property of LLMWorker.run (Spec).                                       *)

\* C2: without an I/O failure the worker reports an error exactly when no
\* valid JSON was extracted; the empty object is reported with finished.
\* Stated for responses from which an object or nothing was extracted.
C2_ErrorIffNoJson ==
    (worker.pc = "done" /\ worker.fail = "none"
        /\ worker.json_data.t \in {"obj", "none"}) =>
        (worker.emitted.type = "error" <=> worker.json_data = None)

-----------------------------------------------------------------------------
(* Properties of visualize_mindmap (SpecViz).                              *)

\* a category's value of the documented shape: a scalar or a list of strings
IsCategoryValue(val) ==
    \/ val.t \in {"str", "num"}
    \/ val.t = "arr" /\ \A j \in 1..Len(val.v) : val.v[j].t = "str"

\* a category map: an object whose values all have that shape
IsCategoryMap(data) ==
    data.t = "obj" /\ \A i \in 1..Len(data.v) : IsCategoryValue(data.v[i].v)

\* the leaves a category's value asks for
LeafCount(val) == IF val.t = "arr" THEN Len(val.v) ELSE 1

RECURSIVE LeavesUpTo(_, _)
\* the leaves of the first n categories
LeavesUpTo(data, n) ==
    IF n = 0 THEN 0 ELSE LeavesUpTo(data, n - 1) + LeafCount(data.v[n].v)

TotalLeaves(data) == LeavesUpTo(data, Len(data.v))

\* the node items of a type, the lines
NodeItems(node_type) ==
    {k \in 1..Len(items) : items[k].kind = "node" /\ items[k].node_type = node_type}
LineItems == {k \in 1..Len(items) : items[k].kind = "line"}

\* a line from a node of one type to a node of another
Joins(k, from_type, to_type) ==
    /\ items[k].start_node \in NodeItems(from_type)
    /\ items[k].end_node \in NodeItems(to_type)

\* C3: a completed build of a map of n categories and L leaves holds one
\* central, n category and L leaf nodes under pairwise distinct keys, and
\* n + L edges, each central-category or category-leaf, every leaf on
\* exactly one category.
C3_NodesAndEdges ==
    (n_calls > 0 /\ viz_exc = "none" /\ IsCategoryMap(last_data)) =>
        /\ Cardinality(NodeItems("central")) = 1
        /\ Cardinality(NodeItems("category")) = Len(last_data.v)
        /\ Cardinality(NodeItems("leaf")) = TotalLeaves(last_data)
        /\ Cardinality(DOMAIN nodes) = 1 + Len(last_data.v) + TotalLeaves(last_data)
        /\ Cardinality(LineItems) = Len(last_data.v) + TotalLeaves(last_data)
        /\ Len(connections) = Cardinality(LineItems)
        /\ \A k \in LineItems :
              Joins(k, "central", "category") \/ Joins(k, "category", "leaf")
        /\ \A leaf \in NodeItems("leaf") :
              Cardinality({k \in LineItems : items[k].end_node = leaf}) = 1

\* the colour indexes of the node items, in the order the nodes were added
RECURSIVE ColorsOf(_)
ColorsOf(its) ==
    IF its = <<>> THEN <<>>
    ELSE (IF Head(its).kind = "node" THEN <<Head(its).color_index>> ELSE <<>>)
         \o ColorsOf(Tail(its))

\* n times the colour c
Repeat(c, n) == [k \in 1..n |-> c]

RECURSIVE PaletteColors(_, _)
\* category i (from 0) and its leaves take palette entry i mod the palette
\* size: the colours of the categories n.. and their leaves
PaletteColors(data, n) ==
    IF n > Len(data.v) THEN <<>>
    ELSE Repeat((n - 1) % PaletteSize, 1 + LeafCount(data.v[n].v))
         \o PaletteColors(data, n + 1)

\* C4: for any number of categories the build completes, and category i and
\* all its leaves take palette entry i mod 8, the ninth the first's again.
C4_PaletteWraps ==
    (n_calls > 0 /\ IsCategoryMap(last_data)) =>
        /\ viz_exc = "none"
        /\ ColorsOf(items) = <<0>> \o PaletteColors(last_data, 1)

\* C7: parsed JSON that is no category map (no object at the top, or a
\* value that is neither a scalar nor a list of strings) makes the build
\* fail; it is not rendered.
C7_MalformedRejected ==
    (n_calls > 0 /\ ~IsCategoryMap(last_data)) => viz_exc # "none"

\* a newly constructed MindMapScene, before show_initial_message
EmptyScene == [nodes |-> NoNodes, connections |-> <<>>, items |-> <<>>,
               exc |-> "none"]

\* the scene in the state, with the exception that ended the last call
SceneLeft == [nodes |-> nodes, connections |-> connections, items |-> items,
              exc |-> viz_exc]

\* C9: after every visualize_mindmap call the node table, the edge list and
\* the scene's items are what the same call leaves on a new, empty scene:
\* nothing of an earlier model, and no initial message, is carried over.
C9_OnlyLatestModel ==
    n_calls > 0 => SceneLeft = VisualizeMindmap(EmptyScene, last_data, last_central)

\* a second call has replaced a model, and built only the central node
C9_Witness ==
    n_calls >= 2 /\ viz_exc = "none" /\ DOMAIN nodes = {last_central}
        /\ Len(items) = 1

\* the value asks for exactly one leaf
HasOneLeaf(val) == LeafCount(val) = 1

\* the index in items of category n's node when the categories before it
\* were built whole: the central node, then a node and a line per category
\* and per leaf
CategoryItem(data, n) == 2 + 2 * (n - 1) + 2 * LeavesUpTo(data, n - 1)

\* category n of data (from 1) stands at its angle on the category radius
\* and its one leaf at the same angle, the leaf radius further out
OneLeafPlaced(data, n, c) ==
    /\ items[c].kind = "node" /\ items[c].node_type = "category"
    /\ items[c].pos = <<Polar(CategoryRadius, Rat(2 * (n - 1), Len(data.v)))>>
    /\ items[c + 2].kind = "node" /\ items[c + 2].node_type = "leaf"
    /\ items[c + 2].pos =
          items[c].pos \o <<Polar(LeafRadius, Rat(2 * (n - 1), Len(data.v)))>>

\* C10: a category with exactly one leaf never reaches the division by
\* num_leaves - 1: no ZeroDivisionError, and the leaf stands at the
\* category's own angle, the leaf radius away from the category.
C10_SingleLeaf ==
    (n_calls > 0 /\ last_data.t = "obj") =>
        /\ viz_exc # "ZeroDivisionError"
        /\ \A n \in 1..Len(last_data.v) :
              (HasOneLeaf(last_data.v[n].v)
                  /\ CategoryItem(last_data, n) + 2 <= Len(items))
                  => OneLeafPlaced(last_data, n, CategoryItem(last_data, n))

\* a completed build whose second category has a list of one leaf
C10_Witness ==
    /\ n_calls > 0 /\ viz_exc = "none" /\ last_data.t = "obj"
    /\ Len(last_data.v) >= 2
    /\ last_data.v[2].v = LeafList(1)
    /\ Len(items) >= CategoryItem(last_data, 2) + 3

-----------------------------------------------------------------------------
(* The spread of a category's leaves (SpecViz).  Angles are exact          *)
(* rationals in units of pi; the rounding of the floats is not modelled.   *)

\* p < q
RLess(p, q) == p.n * q.d < q.n * p.d

\* -p
RNeg(p) == RSub(Rat(0, 1), p)

\* S / 2
HalfSpan == RDiv(AngularSpan, Rat(2, 1))

\* the angle of leaf j (from 0) of the category whose node is item c
LeafAngleAt(c, j) == items[c + 2 + 2 * j].pos[2].a

\* leaf j of the category at item c is a leaf node, the leaf radius away
\* from the category's position
IsLeafOf(c, j) ==
    /\ items[c + 2 + 2 * j].kind = "node"
    /\ items[c + 2 + 2 * j].node_type = "leaf"
    /\ Len(items[c + 2 + 2 * j].pos) = 2
    /\ items[c + 2 + 2 * j].pos[1] = items[c].pos[1]
    /\ items[c + 2 + 2 * j].pos[2].r = LeafRadius

\* the m leaves of the category at item c, itself at angle theta: symmetric
\* about theta, rising with j, from theta - S/2 to theta + S/2
SpreadAbout(c, m, theta) ==
    /\ items[c].pos = <<Polar(CategoryRadius, theta)>>
    /\ \A j \in 0..(m - 1) : IsLeafOf(c, j)
    /\ \A j \in 0..(m - 1) :
          RSub(LeafAngleAt(c, j), theta) = RNeg(RSub(LeafAngleAt(c, m - 1 - j), theta))
    /\ \A j \in 0..(m - 2) : RLess(LeafAngleAt(c, j), LeafAngleAt(c, j + 1))
    /\ LeafAngleAt(c, 0) = RSub(theta, HalfSpan)
    /\ LeafAngleAt(c, m - 1) = RAdd(theta, HalfSpan)
    /\ RSub(LeafAngleAt(c, m - 1), LeafAngleAt(c, 0)) = AngularSpan

\* category n of data has a list of more than one leaf, all of them built
HasSpreadLeaves(data, n) ==
    /\ data.v[n].v.t = "arr"
    /\ Len(data.v[n].v.v) > 1
    /\ CategoryItem(data, n) + 2 * Len(data.v[n].v.v) <= Len(items)

\* C11: the m > 1 leaves of a category at angle theta stand at angles
\* symmetric about theta (leaf j and leaf m-1-j at equal and opposite
\* offsets), rising with j, the first at theta - S/2 and the last at
\* theta + S/2, so that they span the constant S.
C11_SymmetricSpan ==
    (n_calls > 0 /\ last_data.t = "obj") =>
        \A n \in 1..Len(last_data.v) :
            HasSpreadLeaves(last_data, n) =>
                SpreadAbout(CategoryItem(last_data, n), Len(last_data.v[n].v.v),
                            Rat(2 * (n - 1), Len(last_data.v)))

\* a completed build whose second category, at angle pi, has three leaves
C11_Witness ==
    /\ n_calls > 0 /\ viz_exc = "none" /\ last_data.t = "obj"
    /\ Len(last_data.v) = 2
    /\ last_data.v[2].v = LeafList(3)
    /\ HasSpreadLeaves(last_data, 2)
    /\ LeafAngleAt(CategoryItem(last_data, 2), 1) = Rat(1, 1)

-----------------------------------------------------------------------------
(* The worker and the send button (SpecLive).                              *)

\* a worker is running, or its signal waits to be handled
InFlight == worker.pc = "running" \/ signals # <<>>

\* one worker at most, and the button disabled exactly while it is in flight
OneInFlight ==
    /\ Len(signals) <= 1
    /\ ~(worker.pc = "running" /\ signals # <<>>)
    /\ send_enabled <=> ~InFlight

\* a step that starts a worker finds none in flight; a step that ends a run
\* adds exactly one signal, finished or error; a step that handles a signal
\* leaves the button enabled
WorkerSteps ==
    /\ (send_enabled /\ ~send_enabled') =>
          (~InFlight /\ worker'.pc = "running" /\ signals' = <<>>)
    /\ (worker.pc = "running" /\ worker'.pc = "done") =>
          /\ Len(signals') = Len(signals) + 1
          /\ signals'[Len(signals')].type \in {"finished", "error"}
          /\ ~send_enabled'
    /\ Len(signals') < Len(signals) => send_enabled'

\* C12: at most one worker is in flight; the send button is disabled from
\* the click that starts a worker until that worker's signal is handled;
\* every run, whichever step fails, ends with exactly one signal, finished
\* or error; handling it enables the button again, so that a disabled
\* button is always enabled again.
C12_OneWorkerNoLock ==
    /\ []OneInFlight
    /\ [][WorkerSteps]_vars
    /\ (~send_enabled ~> send_enabled)

\* a run that failed at the saving of the JSON has emitted error, the
\* signal was handled and the button is enabled again
C12_Witness ==
    /\ worker.pc = "done" /\ worker.fail = "json_save"
    /\ worker.emitted.type = "error"
    /\ signals = <<>> /\ send_enabled

=============================================================================
